---- MODULE Spec2Model ----
(***************************************************************************)
(* A model of the Lua tokenizer of src/src/lex.rs: the pattern table that  *)
(* #[derive(Logos)] turns into LuaToken::lexer, the conversion callbacks   *)
(* as_int and as_float, and the pull loop of Lexer::next().                *)
(*                                                                         *)
(* A source buffer is a sequence of one-character strings; positions are   *)
(* 1-based, and a span lo..hi covers the characters lo .. hi-1.            *)
(***************************************************************************)
EXTENDS Integers, Sequences, FiniteSets, TLC

VARIABLES source, token_start, token_end, results, finished

vars == <<source, token_start, token_end, results, finished>>

----------------------------------------------------------------------------
(* Character classes of the patterns.                                      *)

Digit == {"0", "1", "2", "3", "4", "5", "6", "7", "8", "9"}

HexDigit == Digit \cup {"a", "b", "c", "d", "e", "f", "A", "B", "C", "D", "E", "F"}

Lower ==
    {"a", "b", "c", "d", "e", "f", "g", "h", "i", "j", "k", "l", "m",
     "n", "o", "p", "q", "r", "s", "t", "u", "v", "w", "x", "y", "z"}

Upper ==
    {"A", "B", "C", "D", "E", "F", "G", "H", "I", "J", "K", "L", "M",
     "N", "O", "P", "Q", "R", "S", "T", "U", "V", "W", "X", "Y", "Z"}

\* [a-zA-Z_]
IdentStart == Lower \cup Upper \cup {"_"}

\* [a-zA-Z_0-9]
IdentCont == IdentStart \cup Digit

\* [ \t\n\f]
SkipWhite == {" ", "\t", "\n", "\f"}

\* What str::trim removes (Unicode White_Space), as far as the alphabet goes.
TrimWhite == {" ", "\t", "\n", "\f", "\r"}

Quotes == {"\"", "'"}

----------------------------------------------------------------------------
(* The pattern table.                                                      *)

\* #[token(..)] patterns in declaration order: <<variant, literal text>>.
Literals ==
    << <<"And", <<"a", "n", "d">> >>,
       <<"Break", <<"b", "r", "e", "a", "k">> >>,
       <<"Continue", <<"c", "o", "n", "t", "i", "n", "u", "e">> >>,
       <<"Do", <<"d", "o">> >>,
       <<"Else", <<"e", "l", "s", "e">> >>,
       <<"Elseif", <<"e", "l", "s", "e", "i", "f">> >>,
       <<"End", <<"e", "n", "d">> >>,
       <<"False", <<"f", "a", "l", "s", "e">> >>,
       <<"For", <<"f", "o", "r">> >>,
       <<"Function", <<"f", "u", "n", "c", "t", "i", "o", "n">> >>,
       <<"Goto", <<"g", "o", "t", "o">> >>,
       <<"If", <<"i", "f">> >>,
       <<"In", <<"i", "n">> >>,
       <<"Local", <<"l", "o", "c", "a", "l">> >>,
       <<"Nil", <<"n", "i", "l">> >>,
       <<"Not", <<"n", "o", "t">> >>,
       <<"Or", <<"o", "r">> >>,
       <<"Repeat", <<"r", "e", "p", "e", "a", "t">> >>,
       <<"Return", <<"r", "e", "t", "u", "r", "n">> >>,
       <<"Then", <<"t", "h", "e", "n">> >>,
       <<"True", <<"t", "r", "u", "e">> >>,
       <<"Until", <<"u", "n", "t", "i", "l">> >>,
       <<"While", <<"w", "h", "i", "l", "e">> >>,
       <<"Plus", <<"+">> >>,
       <<"Minus", <<"-">> >>,
       <<"Multiply", <<"*">> >>,
       <<"Divide", <<"/">> >>,
       <<"Modulus", <<"%">> >>,
       <<"Exponent", <<"^">> >>,
       <<"DoubleEqual", <<"=", "=">> >>,
       <<"Equal", <<"=">> >>,
       <<"NotEqual", <<"~", "=">> >>,
       <<"Greater", <<">">> >>,
       <<"Less", <<"<">> >>,
       <<"GreaterEqual", <<">", "=">> >>,
       <<"LessEqual", <<"<", "=">> >>,
       <<"Concatenate", <<".", ".">> >>,
       <<"Length", <<"#">> >>,
       <<"LBracket", <<"[">> >>,
       <<"RBracket", <<"]">> >> >>

\* The patterns that are skipped instead of emitted (#[logos(skip ..)]).
SkipVariants == {"skip_whitespace", "skip_line", "skip_block", "skip_shebang"}

----------------------------------------------------------------------------
(* Matching one pattern at position i: the end of the longest match (the   *)
(* position after its last character), or 0 when the pattern does not      *)
(* match there.                                                            *)

Max(a, b) == IF a >= b THEN a ELSE b

At(buf, i) == IF i >= 1 /\ i <= Len(buf) THEN buf[i] ELSE ""

\* The first position j >= i whose character is not in S (Len+1 at the end).
RECURSIVE RunEnd(_, _, _)
RunEnd(buf, i, S) ==
    IF i <= Len(buf) /\ buf[i] \in S THEN RunEnd(buf, i + 1, S) ELSE i

\* The first position j >= i whose character is in Stop (Len+1 at the end).
RECURSIVE RunEndNot(_, _, _)
RunEndNot(buf, i, Stop) ==
    IF i <= Len(buf) /\ buf[i] \notin Stop THEN RunEndNot(buf, i + 1, Stop) ELSE i

MatchLiteral(buf, i, lit) ==
    IF /\ At(buf, i) = lit[1]
       /\ i + Len(lit) - 1 <= Len(buf)
       /\ SubSeq(buf, i, i + Len(lit) - 1) = lit
    THEN i + Len(lit)
    ELSE 0

\* [ \t\n\f]+
MatchWhitespace(buf, i) ==
    IF At(buf, i) \in SkipWhite THEN RunEnd(buf, i + 1, SkipWhite) ELSE 0

\* --[^\n]*
MatchLineComment(buf, i) ==
    IF MatchLiteral(buf, i, <<"-", "-">>) # 0
    THEN RunEndNot(buf, i + 2, {"\n"})
    ELSE 0

\* --\[\[(.|\n)--\]\] : the group is not repeated, it is one character.
MatchBlockComment(buf, i) ==
    IF /\ MatchLiteral(buf, i, <<"-", "-", "[", "[">>) # 0
       /\ MatchLiteral(buf, i + 5, <<"-", "-", "]", "]">>) # 0
    THEN i + 9
    ELSE 0

\* \#\![^\n]*
MatchShebang(buf, i) ==
    IF MatchLiteral(buf, i, <<"#", "!">>) # 0
    THEN RunEndNot(buf, i + 2, {"\n"})
    ELSE 0

\* [a-zA-Z_][a-zA-Z_0-9]*
MatchIdentifier(buf, i) ==
    IF At(buf, i) \in IdentStart THEN RunEnd(buf, i + 1, IdentCont) ELSE 0

\* MatchString with the newline allowed in the content: "[^"]*"|'[^']*'
MatchStringAcrossLines(buf, i) ==
    IF At(buf, i) \in Quotes
    THEN LET j == RunEndNot(buf, i + 1, {buf[i]})
         IN  IF At(buf, j) = buf[i] THEN j + 1 ELSE 0
    ELSE 0

\* "[^"\n]*"|'[^'\n]*'
MatchString(buf, i) ==
    IF At(buf, i) \in Quotes
    THEN LET j == RunEndNot(buf, i + 1, {buf[i], "\n"})
         IN  IF At(buf, j) = buf[i] THEN j + 1 ELSE 0
    ELSE 0

\* [0-9][0-9_]*
DecRun(buf, i) ==
    IF At(buf, i) \in Digit THEN RunEnd(buf, i + 1, Digit \cup {"_"}) ELSE 0

\* 0[xX][0-9a-fA-F][0-9a-fA-F_]*
HexRun(buf, i) ==
    IF At(buf, i) = "0" /\ At(buf, i + 1) \in {"x", "X"} /\ At(buf, i + 2) \in HexDigit
    THEN RunEnd(buf, i + 3, HexDigit \cup {"_"})
    ELSE 0

\* [0-9][0-9_]*|0[xX][0-9a-fA-F][0-9a-fA-F_]*
MatchInteger(buf, i) == Max(DecRun(buf, i), HexRun(buf, i))

\* <run>\.<digit><digits or _>* after an integer run that ends at j
FractionEnd(buf, j, digits) ==
    IF j # 0 /\ At(buf, j) = "." /\ At(buf, j + 1) \in digits
    THEN RunEnd(buf, j + 2, digits \cup {"_"})
    ELSE 0

\* ([0-9][0-9_]*\.[0-9][0-9_]*)|(0[xX][0-9a-fA-F][0-9a-fA-F_]*\.[0-9a-fA-F][0-9a-fA-F_]*)
MatchFloat(buf, i) ==
    Max(FractionEnd(buf, DecRun(buf, i), Digit),
        FractionEnd(buf, HexRun(buf, i), HexDigit))

----------------------------------------------------------------------------
(* Choosing among the patterns that match at a position.                    *)

\* The patterns in declaration order: the four skip patterns of the enum's
\* attributes, the #[token] literals, then the four #[regex] variants.
PatternNames ==
    <<"skip_whitespace", "skip_line", "skip_block", "skip_shebang",
      "And", "Break", "Continue", "Do", "Else", "Elseif", "End", "False",
      "For", "Function", "Goto", "If", "In", "Local", "Nil", "Not", "Or",
      "Repeat", "Return", "Then", "True", "Until", "While",
      "Plus", "Minus", "Multiply", "Divide", "Modulus", "Exponent",
      "DoubleEqual", "Equal", "NotEqual", "Greater", "Less", "GreaterEqual",
      "LessEqual", "Concatenate", "Length", "LBracket", "RBracket",
      "Identifier", "String", "Integer", "Float">>

LiteralOf(k) == Literals[k - 4][2]

IsLiteral(k) == k > 4 /\ k <= 4 + Len(Literals)

\* The end of pattern k's match at position i, or 0.
MatchEnd(buf, i, k) ==
    IF IsLiteral(k) THEN MatchLiteral(buf, i, LiteralOf(k))
    ELSE CASE PatternNames[k] = "skip_whitespace" -> MatchWhitespace(buf, i)
           [] PatternNames[k] = "skip_line" -> MatchLineComment(buf, i)
           [] PatternNames[k] = "skip_block" -> MatchBlockComment(buf, i)
           [] PatternNames[k] = "skip_shebang" -> MatchShebang(buf, i)
           [] PatternNames[k] = "Identifier" -> MatchIdentifier(buf, i)
           [] PatternNames[k] = "String" -> MatchString(buf, i)
           [] PatternNames[k] = "Integer" -> MatchInteger(buf, i)
           [] PatternNames[k] = "Float" -> MatchFloat(buf, i)

\* PatternPriority with the identifier pattern ranked above every literal.
PatternPriorityIdentifierFirst(k) ==
    IF IsLiteral(k) THEN 2 * Len(LiteralOf(k))
    ELSE IF PatternNames[k] = "Identifier" THEN 100 ELSE 4

\* Logos' priority of a pattern: 2 for every literal character, 1 for every
\* character class, nothing for a repetition, the cheapest branch of an
\* alternation.
PatternPriority(k) ==
    IF IsLiteral(k) THEN 2 * Len(LiteralOf(k))
    ELSE CASE PatternNames[k] = "skip_whitespace" -> 1
           [] PatternNames[k] = "skip_line" -> 4
           [] PatternNames[k] = "skip_block" -> 17
           [] PatternNames[k] = "skip_shebang" -> 4
           [] PatternNames[k] = "Identifier" -> 1
           [] PatternNames[k] = "String" -> 4
           [] PatternNames[k] = "Integer" -> 1
           [] PatternNames[k] = "Float" -> 4

\* Whether a match of pattern k ending at e is preferred to one of pattern
\* best ending at bestEnd: the longer match, and among matches of one length
\* the pattern of the higher priority.
Beats(k, e, best, bestEnd) ==
    /\ e # 0
    /\ \/ best = 0
       \/ e > bestEnd
       \/ e = bestEnd /\ PatternPriority(k) > PatternPriority(best)

\* The preferred pattern among patterns k.. and pattern best (0: none yet).
RECURSIVE ChooseFrom(_, _, _, _, _)
ChooseFrom(buf, i, k, best, bestEnd) ==
    IF k > Len(PatternNames) THEN best
    ELSE LET e == MatchEnd(buf, i, k)
         IN  IF Beats(k, e, best, bestEnd)
             THEN ChooseFrom(buf, i, k + 1, k, e)
             ELSE ChooseFrom(buf, i, k + 1, best, bestEnd)

\* Choose by declaration order: the first pattern that matches at all.
ChooseFirstDeclared(buf, i) ==
    LET M == {k \in 1..Len(PatternNames) : MatchEnd(buf, i, k) # 0}
    IN  IF M = {} THEN 0 ELSE CHOOSE k \in M : \A j \in M : k <= j

\* The generated automaton's choice among the patterns matching at position
\* i, 0 when nothing matches.
Choose(buf, i) == IF i > Len(buf) THEN 0 ELSE ChooseFrom(buf, i, 1, 0, 0)

\* The scan of one call of next() from the cursor pos: the skip patterns
\* matching there, and behind them, are consumed; lo is where the scan stops
\* and k the pattern chosen there (0: none, or the end of the buffer).
RECURSIVE Scan(_, _)
Scan(buf, pos) ==
    LET k == Choose(buf, pos)
    IN  IF k # 0 /\ PatternNames[k] \in SkipVariants
        THEN Scan(buf, MatchEnd(buf, pos, k))
        ELSE [lo |-> pos, k |-> k]

\* EndOfInput of a lexer that stops for good at its first error.
EndOfInputOrError(buf, lo) ==
    \/ lo > Len(buf)
    \/ results # <<>> /\ results[Len(results)].kind = "Err"

\* Nothing is left at lo, where the scan stopped: next() returns None.
EndOfInput(buf, lo) == lo > Len(buf)

----------------------------------------------------------------------------
(* Decoded values. An integer is kept as its decimal digits, most          *)
(* significant first and without leading zeros (<<0>> is zero), so that the *)
(* 64-bit range is compared exactly. A float is kept as the exact decimal  *)
(* mant * 10^exp that the parser rounds to the nearest f64, mant without   *)
(* leading or trailing zeros (<<>> is zero).                               *)

HexChars == <<"0", "1", "2", "3", "4", "5", "6", "7", "8", "9",
              "a", "b", "c", "d", "e", "f">>

UpperHexChars == <<"0", "1", "2", "3", "4", "5", "6", "7", "8", "9",
                   "A", "B", "C", "D", "E", "F">>

DigitVal(c) ==
    CHOOSE n \in 0..15 : HexChars[n + 1] = c \/ UpperHexChars[n + 1] = c

RECURSIVE DigitVals(_)
DigitVals(s) ==
    IF s = <<>> THEN <<>> ELSE <<DigitVal(Head(s))>> \o DigitVals(Tail(s))

RECURSIVE StripLeadingZeros(_)
StripLeadingZeros(d) ==
    IF d # <<>> /\ Head(d) = 0 THEN StripLeadingZeros(Tail(d)) ELSE d

RECURSIVE StripTrailingZeros(_)
StripTrailingZeros(d) ==
    IF d # <<>> /\ d[Len(d)] = 0
    THEN StripTrailingZeros(SubSeq(d, 1, Len(d) - 1))
    ELSE d

Canon(d) == IF StripLeadingZeros(d) = <<>> THEN <<0>> ELSE StripLeadingZeros(d)

\* a <= b for canonical digit sequences
BigLE(a, b) ==
    \/ Len(a) < Len(b)
    \/ /\ Len(a) = Len(b)
       /\ \/ a = b
          \/ \E k \in 1..Len(a) :
                /\ a[k] < b[k]
                /\ \A j \in 1..(k - 1) : a[j] = b[j]

\* i64::MAX = 9223372036854775807
I64Max == <<9, 2, 2, 3, 3, 7, 2, 0, 3, 6, 8, 5, 4, 7, 7, 5, 8, 0, 7>>

RECURSIVE DigitsToNat(_)
DigitsToNat(d) ==
    IF d = <<>> THEN 0 ELSE 10 * DigitsToNat(SubSeq(d, 1, Len(d) - 1)) + d[Len(d)]

Failed == [ok |-> FALSE, payload |-> <<>>]

Decoded(v) == [ok |-> TRUE, payload |-> v]

\* str::trim_start_matches(pat): every leading repetition of pat is removed.
RECURSIVE trim_start_matches(_, _)
trim_start_matches(s, pat) ==
    IF Len(s) >= Len(pat) /\ SubSeq(s, 1, Len(pat)) = pat
    THEN trim_start_matches(SubSeq(s, Len(pat) + 1, Len(s)), pat)
    ELSE s

\* .trim_start_matches("0x").trim_start_matches("0X").replace("_", "")
StripNumber(slice) ==
    SelectSeq(trim_start_matches(trim_start_matches(slice, <<"0", "x">>),
                                 <<"0", "X">>),
              LAMBDA c : c # "_")

\* lexical_core::parse::<i64> of text without a sign: base 10, every byte a
\* digit, at least one digit, the value within the 64-bit range.
ParseI64(s) ==
    IF s = <<>> \/ \E k \in 1..Len(s) : s[k] \notin Digit
    THEN Failed
    ELSE IF BigLE(Canon(DigitVals(s)), I64Max)
         THEN Decoded(Canon(DigitVals(s)))
         ELSE Failed

\* The decimal mant * 10^exp in normal form.
Decimal(digits, exp) ==
    LET m == StripLeadingZeros(digits)
        t == StripTrailingZeros(m)
    IN  IF t = <<>> THEN [mant |-> <<>>, exp |-> 0]
        ELSE [mant |-> t, exp |-> exp + (Len(m) - Len(t))]

\* lexical_core::parse::<f64> of text without a sign: base 10, digits, an
\* optional '.' and digits, an optional e|E and exponent digits; at least one
\* mantissa digit, at least one exponent digit after e|E, nothing left over.
ParseF64(s) ==
    LET intEnd == RunEnd(s, 1, Digit)
        fracEnd == IF At(s, intEnd) = "." THEN RunEnd(s, intEnd + 1, Digit) ELSE intEnd
        int == SubSeq(s, 1, intEnd - 1)
        frac == SubSeq(s, intEnd + 1, fracEnd - 1)
        hasExp == At(s, fracEnd) \in {"e", "E"}
        expEnd == IF hasExp THEN RunEnd(s, fracEnd + 1, Digit) ELSE fracEnd
        expDigits == SubSeq(s, fracEnd + 1, expEnd - 1)
    IN  IF \/ int \o frac = <<>>
           \/ hasExp /\ expDigits = <<>>
           \/ expEnd # Len(s) + 1
        THEN Failed
        ELSE Decoded(Decimal(DigitVals(int \o frac),
                             DigitsToNat(DigitVals(expDigits)) - Len(frac)))

as_int(slice) == ParseI64(StripNumber(slice))

as_float(slice) == ParseF64(StripNumber(slice))

\* str::trim: leading and trailing white space removed.
Trim(s) ==
    LET lo == RunEnd(s, 1, TrimWhite)
    IN  IF lo > Len(s) THEN <<>>
        ELSE LET hi == CHOOSE j \in lo..Len(s) :
                          /\ s[j] \notin TrimWhite
                          /\ \A k \in (j + 1)..Len(s) : s[k] \in TrimWhite
             IN  SubSeq(s, lo, hi)

\* The callback of the String variant without the trim.
StringCallbackUntrimmed(slice) == Decoded(SubSeq(slice, 2, Len(slice) - 1))

\* |text| text.slice()[1..text.slice().len()-1].trim()
StringCallback(slice) == Decoded(Trim(SubSeq(slice, 2, Len(slice) - 1)))

\* The callback of the variant that matched, applied to the matched slice.
Callback(tok, slice) ==
    CASE tok = "Identifier" -> Decoded(slice)
      [] tok = "String" -> StringCallback(slice)
      [] tok = "Integer" -> as_int(slice)
      [] tok = "Float" -> as_float(slice)
      [] OTHER -> Decoded(<<>>)

----------------------------------------------------------------------------
(* Lexer::next(). The lexer's state is the buffer and the span of the last *)
(* lexeme (token_start, token_end); results is the sequence of the         *)
(* Some(..) values returned so far, and finished whether None was returned.*)

\* ErrorEnds without the step over the offending character.
ErrorEndsInPlace(buf, lo) == {lo}

\* How far the span of an error that no pattern matched can reach. The
\* generated automaton stops where its last candidate pattern died: one
\* character after lo or, for an opening quote without its closing quote,
\* anywhere up to the newline or the end of the buffer, depending on the
\* version of the generator.
ErrorEnds(buf, lo) ==
    IF At(buf, lo) \in Quotes
    THEN (lo + 1)..Max(lo + 1, RunEndNot(buf, lo + 1, {buf[lo], "\n"}))
    ELSE {lo + 1}

Result(kind, tok, lo, hi, payload) ==
    [kind |-> kind, tok |-> tok, lo |-> lo, hi |-> hi, payload |-> payload]

\* The slice of a result: the lexeme it was made from.
Lexeme(r) == SubSeq(source, r.lo, r.hi - 1)

\* A pattern matches and its callback succeeds: Some(Ok(token)).
NextToken ==
    /\ LET s == Scan(source, token_end)
       IN  /\ ~EndOfInput(source, s.lo)
           /\ s.k # 0
           /\ LET hi == MatchEnd(source, s.lo, s.k)
                  cb == Callback(PatternNames[s.k], SubSeq(source, s.lo, hi - 1))
              IN  /\ cb.ok
                  /\ token_start' = s.lo
                  /\ token_end' = hi
                  /\ results' = Append(results,
                                    Result("Ok", PatternNames[s.k], s.lo, hi, cb.payload))
    /\ UNCHANGED <<source, finished>>

\* No pattern matches, or the callback of the one that does returns None:
\* Some(Err(())).
NextError ==
    /\ LET s == Scan(source, token_end)
       IN  /\ ~EndOfInput(source, s.lo)
           /\ \E hi \in (IF s.k = 0 THEN ErrorEnds(source, s.lo)
                                    ELSE {MatchEnd(source, s.lo, s.k)}) :
                 /\ s.k # 0 =>
                       ~Callback(PatternNames[s.k], SubSeq(source, s.lo, hi - 1)).ok
                 /\ token_start' = s.lo
                 /\ token_end' = hi
                 /\ results' = Append(results, Result("Err", "Error", s.lo, hi, <<>>))
    /\ UNCHANGED <<source, finished>>

\* Only skipped text is left: None, and the cursor stays where the scan
\* stopped.
NextNone ==
    /\ LET s == Scan(source, token_end)
       IN  /\ EndOfInput(source, s.lo)
           /\ token_start' = s.lo
           /\ token_end' = s.lo
    /\ finished' = TRUE
    /\ UNCHANGED <<source, results>>

Next == NextToken \/ NextError \/ NextNone

\* LuaToken::lexer(src): the cursor at the start of the buffer.
InitOn(srcs) ==
    /\ source \in srcs
    /\ token_start = 1
    /\ token_end = 1
    /\ results = <<>>
    /\ finished = FALSE

----------------------------------------------------------------------------
(* The source buffers explored: every concatenation of a bounded number of *)
(* pieces, one family of pieces for each part of the tokenizer.            *)

RECURSIVE Flatten(_)
Flatten(t) == IF t = <<>> THEN <<>> ELSE Head(t) \o Flatten(Tail(t))

Sources(pieces, n) ==
    {Flatten(t) : t \in UNION {[1..k -> pieces] : k \in 0..n}}

MaxPieces == 3

MaxSuffixPieces == 1

MaxOperatorPieces == 3

MaxNumberPieces == 3

MaxCommentPieces == 4

MaxStringPieces == 3

\* A bit of everything, with text that fails to lex.
MixedPieces ==
    {<<"x">>, <<"0", "x", "f">>, <<"@">>, <<" ">>, <<"\n">>, <<"\"">>,
     <<"-", "-">>}

\* Every reserved word, and two words that differ from one in case only.
KeywordWords ==
    {Literals[k][2] : k \in 1..23} \cup {<<"A", "n", "d">>, <<"I", "F">>}

\* What is put before a word.
KeywordPrefixes ==
    {<<>>, <<"x">>, <<"i", "f", "f", "y", " ">>}

\* What is put after a word.
KeywordSuffixPieces ==
    {<<"x">>, <<"_">>, <<"1">>, <<" ">>, <<"i", "f">>, <<"@">>}

KeywordSources ==
    {a \o w \o b : a \in KeywordPrefixes, w \in KeywordWords,
                   b \in Sources(KeywordSuffixPieces, MaxSuffixPieces)}

\* The operators that are prefixes of one another.
OperatorPieces ==
    {<<"=">>, <<"~">>, <<">">>, <<"<">>, <<".">>}

\* Words that start with a reserved word, put before the operators.
OperatorWords ==
    {<<>>, <<"e", "l", "s", "e", "i", "f">>, <<"e", "n", "d", "_", "1">>}

OperatorSources ==
    {w \o o : w \in OperatorWords, o \in Sources(OperatorPieces, MaxOperatorPieces)}

\* Decimal and hexadecimal digits, and digit runs around the 64-bit limits.
NumberPieces ==
    {<<"0", "x">>, <<"0">>, <<"1">>, <<"f">>, <<"_">>, <<".">>,
     <<".", "1">>, <<"e", "5">>,
     <<"9", "2", "2", "3", "3", "7", "2", "0", "3", "6", "8", "5", "4", "7", "7", "5", "8", "0">>,
     <<"8">>,
     <<"8", "0", "0", "0", "0", "0", "0", "0", "0", "0", "0", "0", "0", "0", "0", "0">>}

\* The comment delimiters and text to put between and after them.
CommentPieces ==
    {<<"-", "-", "[", "[">>, <<"-", "-", "]", "]">>, <<"\n">>, <<"a">>,
     <<" ">>, <<"@">>}

\* Quotes, white space, a backslash and a newline.
StringPieces ==
    {<<"\"">>, <<"'">>, <<" ", "a", "\\">>, <<"b", "\t">>, <<"\n">>,
     <<" ">>}

Init == InitOn(Sources(MixedPieces, MaxPieces))

Spec == Init /\ [][Next]_vars

InitKeyword == InitOn(KeywordSources)

SpecKeyword == InitKeyword /\ [][Next]_vars

InitOperator == InitOn(OperatorSources)

SpecOperator == InitOperator /\ [][Next]_vars

InitNumber == InitOn(Sources(NumberPieces, MaxNumberPieces))

SpecNumber == InitNumber /\ [][Next]_vars

InitComment == InitOn(Sources(CommentPieces, MaxCommentPieces))

SpecComment == InitComment /\ [][Next]_vars

InitString == InitOn(Sources(StringPieces, MaxStringPieces))

SpecString == InitString /\ [][Next]_vars

----------------------------------------------------------------------------
(* The claims of the specification, stated over the results returned so    *)
(* far and the buffer they were scanned from.                              *)

Returned == {results[i] : i \in DOMAIN results}

\* [A-Za-z_][A-Za-z0-9_]*
IdentifierShaped(lex) ==
    /\ lex # <<>>
    /\ lex[1] \in Lower \cup Upper \cup {"_"}
    /\ \A k \in 2..Len(lex) : lex[k] \in Lower \cup Upper \cup Digit \cup {"_"}

\* The words the tokenizer reserves, each with its keyword token.
ReservedWords ==
    {<<<<"a", "n", "d">>, "And">>,
     <<<<"b", "r", "e", "a", "k">>, "Break">>,
     <<<<"c", "o", "n", "t", "i", "n", "u", "e">>, "Continue">>,
     <<<<"d", "o">>, "Do">>,
     <<<<"e", "l", "s", "e">>, "Else">>,
     <<<<"e", "l", "s", "e", "i", "f">>, "Elseif">>,
     <<<<"e", "n", "d">>, "End">>,
     <<<<"f", "a", "l", "s", "e">>, "False">>,
     <<<<"f", "o", "r">>, "For">>,
     <<<<"f", "u", "n", "c", "t", "i", "o", "n">>, "Function">>,
     <<<<"g", "o", "t", "o">>, "Goto">>,
     <<<<"i", "f">>, "If">>,
     <<<<"i", "n">>, "In">>,
     <<<<"l", "o", "c", "a", "l">>, "Local">>,
     <<<<"n", "i", "l">>, "Nil">>,
     <<<<"n", "o", "t">>, "Not">>,
     <<<<"o", "r">>, "Or">>,
     <<<<"r", "e", "p", "e", "a", "t">>, "Repeat">>,
     <<<<"r", "e", "t", "u", "r", "n">>, "Return">>,
     <<<<"t", "h", "e", "n">>, "Then">>,
     <<<<"t", "r", "u", "e">>, "True">>,
     <<<<"u", "n", "t", "i", "l">>, "Until">>,
     <<<<"w", "h", "i", "l", "e">>, "While">>}

\* The 22 reserved words of Lua: the above without `continue`.
LuaReservedWords == {w \in ReservedWords : w[2] # "Continue"}

\* An identifier-shaped lexeme is classified by the table `words`: the
\* keyword of the word it equals, and Identifier(lexeme) when it equals none.
ClassifiedBy(words, r) ==
    /\ r.kind = "Ok"
    /\ \A w \in words : Lexeme(r) = w[1] => r.tok = w[2]
    /\ (\A w \in words : Lexeme(r) # w[1]) =>
            r.tok = "Identifier" /\ r.payload = Lexeme(r)

\* A buffer that is one word only yields one result, for the whole word.
InIsolation(words) ==
    \A w \in words :
        source = w[1] /\ results # <<>> =>
            results[1].lo = 1 /\ results[1].hi = Len(source) + 1
                /\ results[1].tok = w[2]

\* C1, as stated: an identifier-shaped lexeme is a Keyword token if and only
\* if it is one of the 22 reserved words, and Identifier(lexeme) otherwise.
C1_TwentyTwoReservedWords ==
    \A r \in Returned :
        IdentifierShaped(Lexeme(r)) => ClassifiedBy(LuaReservedWords, r)

\* C1, amended: an identifier-shaped lexeme is a Keyword token if and only if
\* it is, case-sensitively, one of the 23 words of the keyword table (the 22
\* of Lua and `continue`), and Identifier(lexeme) otherwise; a reserved word
\* tokenized in isolation yields its Keyword token.
C1_KeywordOrIdentifier ==
    /\ \A r \in Returned :
          IdentifierShaped(Lexeme(r)) => ClassifiedBy(ReservedWords, r)
    /\ InIsolation(ReservedWords)

\* C1's case: an identifier that only starts with a reserved word, then the
\* keyword `continue`.
C1_Witness ==
    /\ Len(results) = 2
    /\ results[1].tok = "Identifier"
    /\ results[2].tok = "Continue"
    /\ \E r \in Returned, w \in ReservedWords :
          /\ r.tok = "Identifier"
          /\ Len(Lexeme(r)) > Len(w[1])
          /\ SubSeq(Lexeme(r), 1, Len(w[1])) = w[1]

\* The operators of two characters, each with its token.
TwoCharacterOperators ==
    {<< <<"=", "=">>, "DoubleEqual">>, << <<"~", "=">>, "NotEqual">>,
     << <<">", "=">>, "GreaterEqual">>, << <<"<", "=">>, "LessEqual">>,
     << <<".", ".">>, "Concatenate">>}

\* C2: a token's lexeme is the longest that any pattern matches where it
\* starts; an operator of two characters is one token, never two; and a
\* lexeme that starts like an identifier runs to the end of the identifier,
\* also when it starts with a reserved word.
C2_LongestMatch ==
    \A r \in Returned :
        r.kind = "Ok" =>
            /\ \A k \in 1..Len(PatternNames) : MatchEnd(source, r.lo, k) <= r.hi
            /\ \A o \in TwoCharacterOperators :
                  (r.lo < Len(source) /\ SubSeq(source, r.lo, r.lo + 1) = o[1]) =>
                      r.tok = o[2] /\ r.hi = r.lo + 2
            /\ source[r.lo] \in Lower \cup Upper \cup {"_"} =>
                  /\ IdentifierShaped(Lexeme(r))
                  /\ r.hi <= Len(source) =>
                        source[r.hi] \notin Lower \cup Upper \cup Digit \cup {"_"}

\* C2's case: a word that starts with a reserved word is one identifier, and
\* of three `=` the first two are one token.
C2_Witness ==
    /\ Len(results) = 3
    /\ results[1].tok = "Identifier"
    /\ \E w \in ReservedWords :
          /\ Len(Lexeme(results[1])) > Len(w[1])
          /\ SubSeq(Lexeme(results[1]), 1, Len(w[1])) = w[1]
    /\ results[2].tok = "DoubleEqual"
    /\ results[3].tok = "Equal"

\* The position of the quote that closes the one at i: the next occurrence
\* of the same character (0 when there is none).
ClosingQuote(i) ==
    IF \E j \in (i + 1)..Len(source) : source[j] = source[i]
    THEN CHOOSE j \in (i + 1)..Len(source) :
            /\ source[j] = source[i]
            /\ \A k \in (i + 1)..(j - 1) : source[k] # source[i]
    ELSE 0

\* p is text with the white space at its two ends removed, nothing else.
TrimmedOf(p, text) ==
    /\ p # <<>> => p[1] \notin TrimWhite /\ p[Len(p)] \notin TrimWhite
    /\ \E a \in 0..(Len(text) - Len(p)) :
          /\ SubSeq(text, a + 1, a + Len(p)) = p
          /\ \A k \in 1..a : text[k] \in TrimWhite
          /\ \A k \in (a + Len(p) + 1)..Len(text) : text[k] \in TrimWhite

\* C7: the payload of a string literal is the text between the opening quote
\* and the next occurrence of the same quote, white space removed at both
\* ends and nothing else changed; a backslash does not escape the quote.
C7_StringPayload ==
    \A r \in Returned :
        r.tok = "String" =>
            /\ source[r.lo] \in {"\"", "'"}
            /\ r.hi = ClosingQuote(r.lo) + 1
            /\ TrimmedOf(r.payload, SubSeq(source, r.lo + 1, r.hi - 2))

\* C7's case: a literal whose content starts with white space and ends with
\* a backslash right before the closing quote.
C7_Witness ==
    \E r \in Returned :
        /\ r.tok = "String"
        /\ r.hi - r.lo >= 5
        /\ source[r.lo + 1] \in TrimWhite
        /\ source[r.hi - 2] = "\\"
        /\ r.payload = SubSeq(source, r.lo + 2, r.hi - 2)

\* The quote at i is not closed on its line: a newline or the end of the
\* buffer comes before the next occurrence of the same quote.
Unterminated(i) ==
    \/ ClosingQuote(i) = 0
    \/ \E k \in (i + 1)..(ClosingQuote(i) - 1) : source[k] = "\n"

\* C8: where a quote is opened and not closed on its line, next() returns an
\* error; no string literal's lexeme contains a newline.
C8_UnterminatedString ==
    \A r \in Returned :
        /\ (source[r.lo] \in {"\"", "'"} /\ Unterminated(r.lo)) => r.kind = "Err"
        /\ r.tok = "String" => \A k \in r.lo..(r.hi - 1) : source[k] # "\n"

\* C8's case: an error at a quote whose partner comes after a newline, and
\* an error at a quote that has no partner at all.
C8_Witness ==
    /\ \E r \in Returned :
          /\ r.kind = "Err"
          /\ source[r.lo] \in {"\"", "'"}
          /\ ClosingQuote(r.lo) # 0
          /\ Unterminated(r.lo)
    /\ \E r \in Returned :
          /\ r.kind = "Err"
          /\ source[r.lo] \in {"\"", "'"}
          /\ ClosingQuote(r.lo) = 0

\* C9: every result consumes at least one character of the buffer, the
\* lexemes of successive results do not overlap and come in source order,
\* the cursor is where the last call stopped, never before the last lexeme's
\* end, and there are at most as many results as characters.
C9_ForwardProgress ==
    /\ \A i \in DOMAIN results :
          /\ 1 <= results[i].lo
          /\ results[i].lo < results[i].hi
          /\ results[i].hi <= Len(source) + 1
          /\ i > 1 => results[i - 1].hi <= results[i].lo
    /\ Len(results) <= Len(source)
    /\ token_start <= token_end
    /\ token_end <= Len(source) + 1
    /\ results # <<>> =>
          /\ results[Len(results)].hi <= token_end
          /\ ~finished => /\ token_start = results[Len(results)].lo
                          /\ token_end = results[Len(results)].hi
    /\ results = <<>> /\ ~finished => token_end = 1

\* C9's case: the buffer is exhausted after a token, skipped text and an
\* error, in that order.
C9_Witness ==
    /\ finished
    /\ Len(results) = 2
    /\ results[1].kind = "Ok"
    /\ results[2].kind = "Err"
    /\ results[1].hi < results[2].lo

\* C10, as stated: once next() has returned an error, no later call on the
\* same lexer returns an Ok token.
C10_HardStop ==
    \A i, j \in DOMAIN results :
        (i < j /\ results[i].kind = "Err") => results[j].kind # "Ok"

\* C10, amended: an error is no hard stop. The call that returns it consumes
\* the offending text, at least one character; the next call resumes behind
\* it and can return an Ok token; and next() returns None only with the
\* cursor at the end of the buffer, after an error as well.
C10_ErrorsResume ==
    /\ \A i \in DOMAIN results :
          results[i].kind = "Err" =>
              /\ results[i].hi > results[i].lo
              /\ i < Len(results) => results[i + 1].lo >= results[i].hi
    /\ finished => token_end = Len(source) + 1

\* C10's case: an error, then an Ok token, then the end of the buffer.
C10_Witness ==
    /\ finished
    /\ \E i, j \in DOMAIN results :
          i < j /\ results[i].kind = "Err" /\ results[j].kind = "Ok"

\* The lexeme has the integer shape, and the float shape.
IntegerShaped(lex) == lex # <<>> /\ MatchInteger(lex, 1) = Len(lex) + 1

FloatShaped(lex) == lex # <<>> /\ MatchFloat(lex, 1) = Len(lex) + 1

\* The lexeme carries the prefix 0x or 0X.
Prefixed(lex) == Len(lex) >= 2 /\ lex[1] = "0" /\ lex[2] \in {"x", "X"}

\* The digits of a lexeme, or of a part of one: prefix and underscores gone.
DigitsOf(lex) ==
    DigitVals(SelectSeq(IF Prefixed(lex) THEN SubSeq(lex, 3, Len(lex)) ELSE lex,
                        LAMBDA c : c # "_"))

\* The decimal digits of n * m + a, for decimal digits n and naturals m, a.
RECURSIVE MulAddDigits(_, _, _)
MulAddDigits(n, m, a) ==
    IF n = <<>>
    THEN IF a = 0 THEN <<>> ELSE Append(MulAddDigits(<<>>, m, a \div 10), a % 10)
    ELSE Append(MulAddDigits(SubSeq(n, 1, Len(n) - 1), m,
                             (n[Len(n)] * m + a) \div 10),
                (n[Len(n)] * m + a) % 10)

\* n * m + a for a canonical digit sequence n and small naturals m and a.
MulAdd(n, m, a) == Canon(MulAddDigits(n, m, a))

\* The number that the digits d (values below base) write in that base.
RECURSIVE ValueInBase(_, _)
ValueInBase(d, base) ==
    IF d = <<>> THEN <<0>>
    ELSE MulAdd(ValueInBase(SubSeq(d, 1, Len(d) - 1), base), base, d[Len(d)])

\* The value the specification gives an integer lexeme: its digits read in
\* base 16 with the prefix, in base 10 without.
SpecIntegerValue(lex) == ValueInBase(DigitsOf(lex), IF Prefixed(lex) THEN 16 ELSE 10)

FitsI64(v) == BigLE(v, <<9, 2, 2, 3, 3, 7, 2, 0, 3, 6, 8, 5, 4, 7, 7, 5, 8, 0, 7>>)

\* C3: a lexeme of the integer shape whose value fits 64 bits yields
\* Integer(v), v its digits read in base 16 when it is prefixed and in base
\* 10 otherwise.
C3_IntegerValue ==
    \A r \in Returned :
        (IntegerShaped(Lexeme(r)) /\ FitsI64(SpecIntegerValue(Lexeme(r)))) =>
            /\ r.kind = "Ok"
            /\ r.tok = "Integer"
            /\ r.payload = SpecIntegerValue(Lexeme(r))

\* C5: a lexeme of the integer shape whose value does not fit a signed
\* 64-bit integer yields an error, never an Integer token.
C5_IntegerOverflow ==
    \A r \in Returned :
        (IntegerShaped(Lexeme(r)) /\ ~FitsI64(SpecIntegerValue(Lexeme(r)))) =>
            r.kind = "Err"

\* n * 625^k
RECURSIVE Times625(_, _)
Times625(n, k) == IF k = 0 THEN n ELSE Times625(MulAdd(n, 625, 0), k - 1)

\* The value the specification gives a float lexeme, as a decimal: the
\* digits before and after the point read in base 10 without the prefix;
\* with it in base 16, the k digits after the point counting 16^-k, which is
\* 625^k * 10^(-4k).
SpecFloatValue(lex) ==
    LET point == CHOOSE j \in 1..Len(lex) : lex[j] = "."
        whole == DigitsOf(SubSeq(lex, 1, point - 1))
        frac == DigitsOf(SubSeq(lex, point + 1, Len(lex)))
    IN  IF Prefixed(lex)
        THEN Decimal(Times625(ValueInBase(whole \o frac, 16), Len(frac)),
                     0 - 4 * Len(frac))
        ELSE Decimal(whole \o frac, 0 - Len(frac))

\* C4: a lexeme of the float shape yields Float(v), v its digits read with a
\* hexadecimal fraction when it is prefixed and as a decimal otherwise.
C4_FloatValue ==
    \A r \in Returned :
        FloatShaped(Lexeme(r)) =>
            /\ r.kind = "Ok"
            /\ r.tok = "Float"
            /\ r.payload = SpecFloatValue(Lexeme(r))

\* The positions where a call of next() finds `--[[` in front of it: at the
\* start of the buffer or behind a lexeme, white space aside.
CommentOpenings ==
    {i \in {RunEnd(source, c, SkipWhite) : c \in {1} \cup {r.hi : r \in Returned}} :
        MatchLiteral(source, i, <<"-", "-", "[", "[">>) # 0}

\* The positions of the `--]]` that can close the comment opened at i.
Closings(i) ==
    {j \in (i + 4)..Len(source) : MatchLiteral(source, j, <<"-", "-", "]", "]">>) # 0}

\* The first of them.
ClosingOf(i) == CHOOSE j \in Closings(i) : \A k \in Closings(i) : j <= k

\* C6: from `--[[` to the next `--]]` the text is one skipped span: no result
\* starts inside it, and an identifier that follows the `--]]` directly is
\* tokenized.
C6_BlockComment ==
    \A i \in CommentOpenings :
        Closings(i) # {} =>
            /\ \A r \in Returned : ~(i <= r.lo /\ r.lo < ClosingOf(i) + 4)
            /\ (finished /\ At(source, ClosingOf(i) + 4) \in Lower) =>
                  \E r \in Returned : r.lo = ClosingOf(i) + 4

====
